---------------------------- MODULE Spec2Model ----------------------------
(***************************************************************************)
(* Model of src/parser.py: the Garmin export -> CSV converter.             *)
(*                                                                         *)
(* Text is a sequence of one-character strings.  The two library parsers   *)
(* the program calls (datetime.fromisoformat and datetime.strptime) are    *)
(* modelled by what CPython 3.11 does on the characters they are given.    *)
(* A datetime object is a record of its wall-clock fields plus its tzinfo  *)
(* (aware/naive and the utc offset); None, ValueError and OverflowError    *)
(* are records of their own kind.                                          *)
(***************************************************************************)
EXTENDS Integers, Sequences, FiniteSets, TLC

VARIABLES
    gen,        \* how the timestamp text under test was put together
    ts_input,   \* the JSON value handed to parse_garmin_timestamp
    tzlocal,    \* the machine's local utc offset, in seconds (TZ)
    ret,        \* what parse_garmin_timestamp did with ts_input
    ts_other,   \* another offset encoding of the same instant
    ret_other,  \* what parse_garmin_timestamp did with ts_other
    range_arg,  \* the argument of the last is_in_date_range call
    range_ret,  \* its result
    pc,         \* position of the main block
    fs,         \* the part of the export tree the running builder reads
    listing,    \* the order os.listdir produced for that builder
    collected,  \* the rows the last builder collected, before sorting
    csv,        \* the three output files
    crashed_in  \* the builder an uncaught exception came out of

vars == <<gen, ts_input, tzlocal, ret, ts_other, ret_other, range_arg, range_ret,
          pc, fs, listing, collected, csv, crashed_in>>

-----------------------------------------------------------------------------
(* Characters and text                                                     *)

NUL == ""
Digits == <<"0", "1", "2", "3", "4", "5", "6", "7", "8", "9">>

is_digit(c) == \E i \in 1..10 : Digits[i] = c
DigitVal(c) == (CHOOSE i \in 1..10 : Digits[i] = c) - 1

\* s[i] of a C string / of a Python slice: NUL (nothing) outside the text.
At(s, i) == IF i >= 1 /\ i <= Len(s) THEN s[i] ELSE NUL

\* Python's s[-k].
FromEnd(s, k) == At(s, Len(s) - k + 1)

\* Python's `c in s`.
Contains(s, c) == \E i \in 1..Len(s) : s[i] = c

\* Python's s[k:] with k >= 0 (0-based), so the characters at 0-based
\* positions >= k.
SliceFrom(s, k) == IF k >= Len(s) THEN <<>> ELSE SubSeq(s, k + 1, Len(s))

\* Python's s[:-k].
DropLast(s, k) == IF k >= Len(s) THEN <<>> ELSE SubSeq(s, 1, Len(s) - k)

\* Python's s[-k:].
TakeLast(s, k) == IF k >= Len(s) THEN s ELSE SubSeq(s, Len(s) - k + 1, Len(s))

RECURSIVE Pow10(_)
Pow10(n) == IF n = 0 THEN 1 ELSE 10 * Pow10(n - 1)

\* n written with exactly w decimal digits (zero padded).
RECURSIVE Pad(_, _)
Pad(n, w) == IF w = 0 THEN <<>> ELSE Append(Pad(n \div 10, w - 1), Digits[(n % 10) + 1])

\* The value of the n digits of s starting at p.
RECURSIVE DigitsValue(_, _, _)
DigitsValue(s, p, n) ==
    IF n = 0 THEN 0 ELSE DigitsValue(s, p, n - 1) * 10 + DigitVal(At(s, p + n - 1))

AllDigits(s, p, n) == \A i \in p..(p + n - 1) : is_digit(At(s, i))

-----------------------------------------------------------------------------
(* The proleptic Gregorian calendar of the datetime module                 *)

is_leap(y) == (y % 4 = 0) /\ ((y % 100 # 0) \/ (y % 400 = 0))

days_in_month(y, m) ==
    IF m = 2 THEN (IF is_leap(y) THEN 29 ELSE 28)
    ELSE IF m \in {4, 6, 9, 11} THEN 30 ELSE 31

None == [kind |-> "None"]
ValueError == [kind |-> "ValueError"]
OverflowError == [kind |-> "OverflowError"]

\* tzinfo: aware or not, and the utc offset (seconds, microseconds).
Naive == [aware |-> FALSE, off |-> 0, offus |-> 0]
UTC == [aware |-> TRUE, off |-> 0, offus |-> 0]
FixedOffset(sec, us) == [aware |-> TRUE, off |-> sec, offus |-> us]

DateTime(y, mo, d, h, mi, s, us, tz) ==
    [kind |-> "datetime", year |-> y, month |-> mo, day |-> d, hour |-> h,
     minute |-> mi, second |-> s, microsecond |-> us, tzinfo |-> tz]

\* The checks of the datetime constructor (ValueError outside them).
ValidFields(y, mo, d, h, mi, s, us) ==
    /\ y >= 1 /\ y <= 9999
    /\ mo >= 1 /\ mo <= 12
    /\ d >= 1 /\ d <= days_in_month(y, mo)
    /\ h >= 0 /\ h <= 23
    /\ mi >= 0 /\ mi <= 59
    /\ s >= 0 /\ s <= 59
    /\ us >= 0 /\ us < 1000000

new_datetime(y, mo, d, h, mi, s, us, tz) ==
    IF ValidFields(y, mo, d, h, mi, s, us)
    THEN DateTime(y, mo, d, h, mi, s, us, tz)
    ELSE ValueError

\* The calendar day before / after (year 0 and year 10000 come out as such;
\* the caller decides whether that is representable).
PrevDay(y, m, d) ==
    IF d > 1 THEN <<y, m, d - 1>>
    ELSE IF m > 1 THEN <<y, m - 1, days_in_month(y, m - 1)>>
    ELSE <<y - 1, 12, 31>>

NextDay(y, m, d) ==
    IF d < days_in_month(y, m) THEN <<y, m, d + 1>>
    ELSE IF m < 12 THEN <<y, m + 1, 1>>
    ELSE <<y + 1, 1, 1>>

\* Wall clock minus a utc offset of less than a day, not range checked:
\* <<year, month, day, second of day, microsecond>>.
MinusOffset(dt, sec, us) ==
    LET us0  == dt.microsecond - us
        carry == IF us0 < 0 THEN -1 ELSE IF us0 >= 1000000 THEN 1 ELSE 0
        us1  == us0 - carry * 1000000
        sod0 == dt.hour * 3600 + dt.minute * 60 + dt.second - sec + carry
        dd   == IF sod0 < 0 THEN -1 ELSE IF sod0 >= 86400 THEN 1 ELSE 0
        sod1 == sod0 - dd * 86400
        ymd  == IF dd = -1 THEN PrevDay(dt.year, dt.month, dt.day)
                ELSE IF dd = 1 THEN NextDay(dt.year, dt.month, dt.day)
                ELSE <<dt.year, dt.month, dt.day>>
    IN  <<ymd[1], ymd[2], ymd[3], sod1, us1>>

\* Lexicographic <= on tuples of equal length.
RECURSIVE TupleLeq(_, _)
TupleLeq(a, b) ==
    IF Len(a) = 0 THEN TRUE
    ELSE IF a[1] # b[1] THEN a[1] < b[1]
    ELSE TupleLeq(Tail(a), Tail(b))

-----------------------------------------------------------------------------
(* datetime.fromisoformat (CPython 3.11, _datetimemodule.c)                *)
(* Week dates (YYYY-Www-D) need the letter W, which no input here has.     *)

\* Where the character between date and time sits (0-based index).
find_isoformat_datetime_separator(dtstr) ==
    IF Len(dtstr) = 7 THEN 7
    ELSE IF At(dtstr, 5) = "-" THEN 10
    ELSE 8

\* YYYY-MM-DD or YYYYMMDD at the start of dtstr: the three numbers, or no
\* date at all.
parse_isoformat_date(dtstr) ==
    IF ~AllDigits(dtstr, 1, 4) THEN [ok |-> FALSE]
    ELSE
      LET uses_separator == (At(dtstr, 5) = "-")
          pm == IF uses_separator THEN 6 ELSE 5
          pd == IF uses_separator THEN pm + 3 ELSE pm + 2
      IN  IF ~AllDigits(dtstr, pm, 2) THEN [ok |-> FALSE]
          ELSE IF uses_separator /\ At(dtstr, pm + 2) # "-" THEN [ok |-> FALSE]
          ELSE IF ~AllDigits(dtstr, pd, 2) THEN [ok |-> FALSE]
          ELSE [ok |-> TRUE, year |-> DigitsValue(dtstr, 1, 4),
                month |-> DigitsValue(dtstr, pm, 2), day |-> DigitsValue(dtstr, pd, 2)]

\* The fraction after '.' or ',': up to six digits are read, more are
\* skipped; rv is 1 when text is left after them.
parse_fraction(s, p, p_end, vals) ==
    LET len_remains == p_end - p
        to_parse == IF len_remains >= 6 THEN 6 ELSE len_remains
        n_skip == CHOOSE n \in 0..(Len(s) + 1) :
                    /\ \A i \in (p + to_parse)..(p + to_parse + n - 1) : is_digit(At(s, i))
                    /\ ~is_digit(At(s, p + to_parse + n))
    IN  IF ~AllDigits(s, p, to_parse) THEN [rv |-> -3]
        ELSE [rv |-> IF At(s, p + to_parse + n_skip) # NUL THEN 1 ELSE 0,
              h |-> vals[1], m |-> vals[2], s |-> vals[3],
              us |-> DigitsValue(s, p, to_parse) * Pow10(6 - to_parse)]

\* [HH[:?MM[:?SS]]][.ffffff] in s from p up to (not including) p_end.  One
\* round of the loop reads two digits (the loop operator) and then looks at
\* the character c after them (the after operator, p already past c).
RECURSIVE parse_hh_mm_ss_ff_loop(_, _, _, _, _, _)
RECURSIVE parse_hh_mm_ss_ff_after(_, _, _, _, _, _, _)
parse_hh_mm_ss_ff_loop(s, p, p_end, i, has_separator, vals) ==
    IF i = 3 THEN parse_fraction(s, p, p_end, vals)
    ELSE IF ~AllDigits(s, p, 2) THEN [rv |-> -3]
    ELSE parse_hh_mm_ss_ff_after(s, p + 3, p_end, i, At(s, p + 2),
                                 IF i = 0 THEN At(s, p + 2) = ":" ELSE has_separator,
                                 [vals EXCEPT ![i + 1] = DigitsValue(s, p, 2)])

parse_hh_mm_ss_ff_after(s, p, p_end, i, c, has_separator, vals) ==
    IF p >= p_end
      THEN [rv |-> IF c # NUL THEN 1 ELSE 0,
            h |-> vals[1], m |-> vals[2], s |-> vals[3], us |-> 0]
    ELSE IF (has_separator /\ c = ":") \/ (~has_separator /\ c # "." /\ c # ",")
      THEN parse_hh_mm_ss_ff_loop(s, IF has_separator THEN p ELSE p - 1, p_end,
                                  i + 1, has_separator, vals)
    ELSE IF c = "." \/ c = "," THEN parse_fraction(s, p, p_end, vals)
    ELSE [rv |-> -4]

parse_hh_mm_ss_ff(s, p, p_end) == parse_hh_mm_ss_ff_loop(s, p, p_end, 0, TRUE, <<0, 0, 0>>)

\* do { ... } while (++tzinfo_pos < p_end): the position of the first Z, +
\* or - of the time part t; its first character is looked at even when
\* there is none.
find_tzinfo_pos(t) ==
    LET marks == {i \in 1..Len(t) : t[i] \in {"Z", "+", "-"}}
    IN  IF marks # {} THEN CHOOSE i \in marks : \A j \in marks : i <= j
        ELSE IF Len(t) = 0 THEN 2 ELSE Len(t) + 1

\* The utc offset read after the sign: the tzinfo, and whether timezone()
\* takes it (strictly between -24 h and +24 h).
offset_tzinfo(hms, tzsign, tzp) ==
    IF tzp.rv # 0 THEN [ok |-> FALSE]
    ELSE [ok |-> TRUE, hms |-> hms,
          tz |-> IF tzp.h * 3600 + tzp.m * 60 + tzp.s = 0 /\ tzp.us = 0 THEN UTC
                 ELSE FixedOffset(tzsign * (tzp.h * 3600 + tzp.m * 60 + tzp.s), tzsign * tzp.us),
          tzvalid |-> tzp.h * 3600 + tzp.m * 60 + tzp.s < 86400]

time_and_tzinfo(t, tzinfo_pos, hms) ==
    IF hms.rv < 0 THEN [ok |-> FALSE]
    ELSE IF tzinfo_pos = Len(t) + 1
      THEN (IF hms.rv = 1 THEN [ok |-> FALSE]
            ELSE [ok |-> TRUE, hms |-> hms, tz |-> Naive, tzvalid |-> TRUE])
    ELSE IF At(t, tzinfo_pos) = "Z"
      THEN (IF At(t, tzinfo_pos + 1) # NUL THEN [ok |-> FALSE]
            ELSE [ok |-> TRUE, hms |-> hms, tz |-> UTC, tzvalid |-> TRUE])
    ELSE offset_tzinfo(hms, IF At(t, tzinfo_pos) = "-" THEN -1 ELSE 1,
                       parse_hh_mm_ss_ff(t, tzinfo_pos + 1, Len(t) + 1))

\* The time part t (what follows the separator character): the fields and
\* the tzinfo, or no time at all.
parse_isoformat_time(t) ==
    time_and_tzinfo(t, find_tzinfo_pos(t), parse_hh_mm_ss_ff(t, 1, find_tzinfo_pos(t)))

\* What a text with nothing after the date stands for.
MidnightNaive ==
    [ok |-> TRUE, hms |-> [rv |-> 0, h |-> 0, m |-> 0, s |-> 0, us |-> 0],
     tz |-> Naive, tzvalid |-> TRUE]

datetime_of_parts(date, time) ==
    IF ~date.ok THEN ValueError
    ELSE IF ~time.ok THEN ValueError
    ELSE IF ~time.tzvalid THEN ValueError
    ELSE new_datetime(date.year, date.month, date.day,
                      time.hms.h, time.hms.m, time.hms.s, time.hms.us, time.tz)

fromisoformat(dtstr) ==
    IF Len(dtstr) < 7 THEN ValueError
    ELSE datetime_of_parts(
           parse_isoformat_date(dtstr),
           IF Len(dtstr) > find_isoformat_datetime_separator(dtstr)
           THEN parse_isoformat_time(SliceFrom(dtstr, find_isoformat_datetime_separator(dtstr) + 1))
           ELSE MidnightNaive)

-----------------------------------------------------------------------------
(* datetime.strptime (CPython 3.11, _strptime.py): the format becomes a    *)
(* regular expression, matched case-insensitively from the start of the   *)
(* text with ordinary backtracking; text left over is a ValueError.       *)

\* A format item is a literal character or one of the directives Y m d H M
\* S f.  The alternatives of a directive in the order the regular
\* expression tries them: <<number of characters, lowest, highest value>>.
DirectiveAlternatives(d) ==
    CASE d = "%Y" -> <<(<<4, 0, 9999>>)>>
      [] d = "%m" -> <<(<<2, 1, 12>>), <<1, 1, 9>>>>
      [] d = "%d" -> <<(<<2, 1, 31>>), <<1, 1, 9>>>>
      [] d = "%H" -> <<(<<2, 0, 23>>), <<1, 0, 9>>>>
      [] d = "%M" -> <<(<<2, 0, 59>>), <<1, 0, 9>>>>
      [] d = "%S" -> <<(<<2, 0, 61>>), <<1, 0, 9>>>>
      [] d = "%f" -> <<(<<6, 0, 999999>>), <<5, 0, 99999>>, <<4, 0, 9999>>,
                       <<3, 0, 999>>, <<2, 0, 99>>, <<1, 0, 9>>>>

IsDirective(item) == item \in {"%Y", "%m", "%d", "%H", "%M", "%S", "%f"}

\* re.IGNORECASE: the literal T of the formats also matches t.
LiteralMatches(c, lit) == c = lit \/ (lit = "T" /\ c = "t")

\* The first way (in the regular expression's order) to match `items` at p:
\* where the match ends and the text of every directive, or no match.
RECURSIVE regex_match(_, _, _, _)
RECURSIVE regex_alternatives(_, _, _, _, _)
regex_match(s, p, items, found) ==
    IF Len(items) = 0 THEN [ok |-> TRUE, end |-> p, found |-> found]
    ELSE IF IsDirective(items[1])
      THEN regex_alternatives(s, p, items, found, DirectiveAlternatives(items[1]))
    ELSE IF LiteralMatches(At(s, p), items[1])
      THEN regex_match(s, p + 1, Tail(items), found)
    ELSE [ok |-> FALSE]

regex_alternatives(s, p, items, found, alts) ==
    IF Len(alts) = 0 THEN [ok |-> FALSE]
    ELSE
      LET n == alts[1][1]
          fits == /\ AllDigits(s, p, n)
                  /\ DigitsValue(s, p, n) >= alts[1][2]
                  /\ DigitsValue(s, p, n) <= alts[1][3]
          rest == regex_match(s, p + n, Tail(items),
                              Append(found, <<DigitsValue(s, p, n), n>>))
      IN  IF fits /\ rest.ok THEN rest
          ELSE regex_alternatives(s, p, items, found, Tail(alts))

FormatDate == <<"%Y", "-", "%m", "-", "%d">>
FormatSeconds == FormatDate \o <<"T", "%H", ":", "%M", ":", "%S">>
FormatFraction == FormatSeconds \o <<".", "%f">>

\* The naive datetime of a match m of the whole text s, or ValueError.
\* m.found holds the directives' <<value, length>> in the order of the
\* format; %f is padded on the right to six digits.
datetime_of_match(s, m) ==
    IF ~m.ok THEN ValueError
    ELSE IF m.end # Len(s) + 1 THEN ValueError
    ELSE new_datetime(m.found[1][1], m.found[2][1], m.found[3][1],
                      IF Len(m.found) >= 4 THEN m.found[4][1] ELSE 0,
                      IF Len(m.found) >= 5 THEN m.found[5][1] ELSE 0,
                      IF Len(m.found) >= 6 THEN m.found[6][1] ELSE 0,
                      IF Len(m.found) >= 7 THEN m.found[7][1] * Pow10(6 - m.found[7][2]) ELSE 0,
                      Naive)

\* strptime(s, format)
strptime(s, format) == datetime_of_match(s, regex_match(s, 1, format, <<>>))

\* dt.replace(tzinfo=timezone.utc), passing an error through.
replace_tzinfo_utc(dt) ==
    IF dt.kind = "datetime" THEN [dt EXCEPT !.tzinfo = UTC] ELSE dt

\* The datetime in UTC of u = <<year, month, day, second of day,
\* microsecond>>; outside years 1..9999 an OverflowError.
utc_datetime(u) ==
    IF u[1] < 1 \/ u[1] > 9999 THEN OverflowError
    ELSE DateTime(u[1], u[2], u[3], u[4] \div 3600, (u[4] % 3600) \div 60,
                  u[4] % 60, u[5], UTC)

\* Finding the machine's offset for a naive datetime builds the datetimes
\* one offset later and one day earlier: a ValueError when one of them is
\* outside years 1..9999.
local_zone_fails(later, day_before) ==
    later[1] < 1 \/ later[1] > 9999 \/ day_before[1] < 1

\* astimezone_utc with the conversion left out: the wall clock is kept and
\* only labelled UTC, as dt.replace(tzinfo=timezone.utc) does.
astimezone_utc_relabelled(dt, local) == [dt EXCEPT !.tzinfo = UTC]

\* dt.astimezone(timezone.utc).  An aware datetime whose tzinfo is already
\* timezone.utc is returned as it is; otherwise the utc offset (the
\* machine's, for a naive datetime) is subtracted.
astimezone_utc(dt, local) ==
    IF dt.tzinfo = UTC THEN dt
    ELSE IF dt.tzinfo.aware
      THEN utc_datetime(MinusOffset(dt, dt.tzinfo.off, dt.tzinfo.offus))
    ELSE IF local_zone_fails(MinusOffset(dt, -local, 0), PrevDay(dt.year, dt.month, dt.day))
      THEN ValueError
    ELSE utc_datetime(MinusOffset(dt, local, 0))

-----------------------------------------------------------------------------
(* Decoded JSON: a node is null, a string, a number or an object           *)

Null == [t |-> "null"]
Str(chars) == [t |-> "str", s |-> chars]
Num(n) == [t |-> "num", n |-> n]
Dict(f) == [t |-> "dict", d |-> f]

\* safe_get(data, keys, default)
RECURSIVE safe_get(_, _, _)
safe_get(data, keys, default) ==
    IF Len(keys) = 0 THEN data
    ELSE IF data.t = "dict" /\ keys[1] \in DOMAIN data.d
      THEN safe_get(data.d[keys[1]], Tail(keys), default)
    ELSE default

\* Python's truth value of a node (`if x`, `not x`).
Truthy(node) ==
    CASE node.t = "null" -> FALSE
      [] node.t = "str"  -> Len(node.s) > 0
      [] node.t = "num"  -> node.n # 0
      [] node.t = "dict" -> DOMAIN node.d # {}

-----------------------------------------------------------------------------
(* parse_garmin_timestamp, is_in_date_range and the two formatters         *)

\* The first branch's test: a '.' and a 'Z' or '+' anywhere, or a '-' at
\* position 10 or later.
HasFractionAndZone(s) ==
    Contains(s, ".") /\ (Contains(s, "Z") \/ Contains(s, "+") \/ Contains(SliceFrom(s, 10), "-"))

\* The text the first branch hands to fromisoformat.
OffsetBranchText(s) ==
    LET s1 == IF Len(s) > 0 /\ FromEnd(s, 1) = "Z"
              THEN DropLast(s, 1) \o <<"+", "0", "0", ":", "0", "0">>
              ELSE s
    IN  IF Len(s1) >= 3 /\ FromEnd(s1, 3) = ":" THEN s1
        ELSE IF Len(s1) > 6 /\ FromEnd(s1, 5) \in {"+", "-"} /\ FromEnd(s1, 3) # ":"
          THEN DropLast(s1, 2) \o <<":">> \o TakeLast(s1, 2)
        ELSE s1

\* The dt_obj of the try block: a datetime, ValueError (caught by the
\* except clause) or None for a text no branch recognises.
parse_branches(s) ==
    IF HasFractionAndZone(s) THEN fromisoformat(OffsetBranchText(s))
    ELSE IF Contains(s, ".") THEN replace_tzinfo_utc(strptime(s, FormatFraction))
    ELSE IF Contains(s, "T") /\ Len(s) = 19 THEN replace_tzinfo_utc(strptime(s, FormatSeconds))
    ELSE IF Len(s) = 10 /\ Contains(s, "-") THEN replace_tzinfo_utc(strptime(s, FormatDate))
    ELSE None

\* The return statement and the except clause: dt_obj moved to UTC; None
\* for a ValueError, which the except clause catches; an OverflowError,
\* which nothing catches, comes out of the function.
normalized(dt_obj, local) ==
    IF dt_obj.kind # "datetime" THEN None
    ELSE IF astimezone_utc(dt_obj, local) = ValueError THEN None
    ELSE astimezone_utc(dt_obj, local)

\* parse_garmin_timestamp(ts_str) on a machine whose local utc offset is
\* `local`: a datetime in UTC, None or OverflowError.
parse_garmin_timestamp(ts_str, local) ==
    IF ~Truthy(ts_str) THEN None
    ELSE normalized(parse_branches(ts_str.s), local)

START_DATE_FILTER == DateTime(2020, 2, 1, 0, 0, 0, 0, UTC)
END_DATE_FILTER == DateTime(2025, 6, 30, 0, 0, 0, 0, UTC)

\* The instant of an aware datetime as a tuple that compares like Python
\* compares aware datetimes.
UtcKey(dt) == MinusOffset(dt, dt.tzinfo.off, dt.tzinfo.offus)

\* is_in_date_range with the end of the window excluded.
is_in_date_range_end_excluded(dt_obj) ==
    IF dt_obj = None THEN FALSE
    ELSE
      LET dt == IF ~dt_obj.tzinfo.aware THEN [dt_obj EXCEPT !.tzinfo = UTC] ELSE dt_obj
      IN  /\ TupleLeq(UtcKey(START_DATE_FILTER), UtcKey(dt))
          /\ TupleLeq(UtcKey(dt), UtcKey(END_DATE_FILTER))
          /\ UtcKey(dt) # UtcKey(END_DATE_FILTER)

is_in_date_range(dt_obj) ==
    IF dt_obj = None THEN FALSE
    ELSE
      LET dt == IF ~dt_obj.tzinfo.aware THEN [dt_obj EXCEPT !.tzinfo = UTC] ELSE dt_obj
      IN  /\ TupleLeq(UtcKey(START_DATE_FILTER), UtcKey(dt))
          /\ TupleLeq(UtcKey(dt), UtcKey(END_DATE_FILTER))

\* %Y of strftime (glibc): the year without leading zeros.
strftime_Y(y) ==
    IF y >= 1000 THEN Pad(y, 4) ELSE IF y >= 100 THEN Pad(y, 3)
    ELSE IF y >= 10 THEN Pad(y, 2) ELSE Pad(y, 1)

\* strftime("%Y-%m-%dT%H:%M:%S") and strftime("%Y-%m-%d") ('' for None).
format_datetime_csv(dt_obj) ==
    IF dt_obj = None THEN <<>>
    ELSE strftime_Y(dt_obj.year) \o <<"-">> \o Pad(dt_obj.month, 2) \o <<"-">> \o Pad(dt_obj.day, 2)
         \o <<"T">> \o Pad(dt_obj.hour, 2) \o <<":">> \o Pad(dt_obj.minute, 2)
         \o <<":">> \o Pad(dt_obj.second, 2)

format_date_csv(dt_obj) ==
    IF dt_obj = None THEN <<>>
    ELSE strftime_Y(dt_obj.year) \o <<"-">> \o Pad(dt_obj.month, 2) \o <<"-">> \o Pad(dt_obj.day, 2)

-----------------------------------------------------------------------------
(* Timestamp texts under test.  A text is put together from numbers and a  *)
(* layout, so that the instant it denotes is known without parsing it.     *)

Years == {1, 2020, 2025, 9999}
MonthDays == {<<1, 1>>, <<1, 31>>, <<2, 1>>, <<6, 30>>, <<12, 31>>, <<2, 30>>}
Times == {<<0, 0, 0>>, <<23, 59, 59>>, <<12, 0, 60>>}
Fractions == {<<>>, <<"0">>, <<"0", "0", "0", "0", "0", "1">>}
NoOffset == [style |-> "none", minutes |-> 0]
Zulu == [style |-> "Z", minutes |-> 0]
OffsetEncodings ==
    {Zulu} \cup {[style |-> "colon", minutes |-> m] : m \in {0, 60, -60, 330}}
           \cup {[style |-> "plain", minutes |-> m] : m \in {60, -420}}
Offsets == {NoOffset, [style |-> "colon", minutes |-> 1500]} \cup OffsetEncodings
LocalOffsets == {-3600, 0, 3600}

GenFields(y, md, t, frac, date_style, sep, has_time, off) ==
    [kind |-> "fields", year |-> y, month |-> md[1], day |-> md[2],
     hour |-> t[1], minute |-> t[2], second |-> t[3], frac |-> frac,
     date_style |-> date_style, sep |-> sep, has_time |-> has_time, off |-> off]
GenRaw(node) == [kind |-> "raw", node |-> node]

\* YYYY-MM-DDTHH:MM:SS[.f][offset] with every combination of the values.
WellFormedInputs ==
    {GenFields(y, md, t, f, "ext", "T", TRUE, o) :
        y \in Years, md \in MonthDays, t \in Times, f \in Fractions, o \in Offsets}

\* Compact dates and other characters between date and time.
OddInputs ==
    {GenFields(y, md, t, f, st, sep, TRUE, o) :
        y \in {2020, 9999}, md \in {<<2, 1>>, <<12, 31>>},
        t \in {<<0, 0, 0>>, <<23, 59, 59>>}, f \in {<<>>, <<"5">>},
        st \in {"ext", "basic"}, sep \in {"t", "+", "Z", "-"},
        o \in {NoOffset, Zulu, [style |-> "colon", minutes |-> 60]}}

DateOnlyInputs ==
    {GenFields(y, md, <<0, 0, 0>>, <<>>, st, "T", FALSE, NoOffset) :
        y \in Years, md \in MonthDays, st \in {"ext", "basic"}}

RawInputs ==
    {GenRaw(Null), GenRaw(Str(<<>>)), GenRaw(Str(<<"2", "0", "2", "1">>)),
     GenRaw(Str(<<"n", "o", "t", " ", "a", " ", "d", "a", "t", "e">>)),
     GenRaw(Str(<<"2", "0", "2", "1", "-", "3", "-", "1", "0", "T">>)),
     GenRaw(Str(<<"T", "2", "3", "4", "5", "6", "7", "8", "9", "0",
                  "1", "2", "3", "4", "5", "6", "7", "8", "9">>)),
     GenRaw(Str(<<"Z", ".">>)), GenRaw(Str(<<".">>))}

GenInputs == WellFormedInputs \cup OddInputs \cup DateOnlyInputs \cup RawInputs

OffsetText(off) ==
    LET a == IF off.minutes < 0 THEN -off.minutes ELSE off.minutes
        sign == IF off.minutes < 0 THEN <<"-">> ELSE <<"+">>
    IN  CASE off.style = "none"  -> <<>>
          [] off.style = "Z"     -> <<"Z">>
          [] off.style = "colon" -> sign \o Pad(a \div 60, 2) \o <<":">> \o Pad(a % 60, 2)
          [] off.style = "plain" -> sign \o Pad(a \div 60, 2) \o Pad(a % 60, 2)

Render(g) ==
    IF g.kind = "raw" THEN g.node
    ELSE
      LET dash == IF g.date_style = "ext" THEN <<"-">> ELSE <<>>
          date == Pad(g.year, 4) \o dash \o Pad(g.month, 2) \o dash \o Pad(g.day, 2)
          frac == IF Len(g.frac) > 0 THEN <<".">> \o g.frac ELSE <<>>
          time == Pad(g.hour, 2) \o <<":">> \o Pad(g.minute, 2) \o <<":">> \o Pad(g.second, 2)
      IN  Str(IF g.has_time THEN date \o <<g.sep>> \o time \o frac \o OffsetText(g.off)
              ELSE date)

\* The wall-clock reading of g as a datetime in g's own offset.
GenWall(g) ==
    DateTime(g.year, g.month, g.day, g.hour, g.minute, g.second,
             IF Len(g.frac) > 0 THEN DigitsValue(g.frac, 1, Len(g.frac)) * Pow10(6 - Len(g.frac))
             ELSE 0,
             FixedOffset(g.off.minutes * 60, 0))

\* g is a valid ISO timestamp with an explicit offset.
ValidOffsetGen(g) ==
    /\ g.kind = "fields" /\ g.date_style = "ext" /\ g.sep = "T" /\ g.has_time
    /\ ValidFields(g.year, g.month, g.day, g.hour, g.minute, g.second, 0)
    /\ g.off \in OffsetEncodings

\* The same instant as g written with offset encoding `off`, when its wall
\* clock stays within years 1..9999.
Reencoded(g, off) ==
    LET w == MinusOffset(GenWall(g), (g.off.minutes - off.minutes) * 60, 0)
    IN  [g EXCEPT !.year = w[1], !.month = w[2], !.day = w[3],
                  !.hour = w[4] \div 3600, !.minute = (w[4] % 3600) \div 60,
                  !.second = w[4] % 60, !.off = off]

-----------------------------------------------------------------------------
(* Rows: rounding, sorting and de-duplication                              *)

\* round_minutes with a half always rounded up.
round_minutes_half_up(seconds) == (seconds + 30) \div 60

\* round(seconds / 60) of Python 3: the nearest integer, a half going to
\* the even neighbour.
round_minutes(seconds) ==
    IF seconds % 60 < 30 THEN seconds \div 60
    ELSE IF seconds % 60 > 30 THEN seconds \div 60 + 1
    ELSE IF (seconds \div 60) % 2 = 0 THEN seconds \div 60
    ELSE seconds \div 60 + 1

\* ord(c) for the characters of a formatted date or datetime.
CharCode(c) ==
    CASE c = "-" -> 45
      [] is_digit(c) -> 48 + DigitVal(c)
      [] c = ":" -> 58
      [] c = "T" -> 84

\* Python's a < b on str.
TextLess(a, b) ==
    LET diff == {i \in 1..Len(a) : i <= Len(b) /\ a[i] # b[i]}
    IN  IF diff = {} THEN Len(a) < Len(b)
        ELSE CharCode(a[CHOOSE i \in diff : \A j \in diff : i <= j])
               < CharCode(b[CHOOSE i \in diff : \A j \in diff : i <= j])

\* Where a stable sort puts row x into rows already sorted: behind every
\* row whose key is not greater.
insert_sorted(sorted, x, key) ==
    LET n == Cardinality({i \in 1..Len(sorted) : ~TextLess(x[key], sorted[i][key])})
    IN  SubSeq(sorted, 1, n) \o <<x>> \o SubSeq(sorted, n + 1, Len(sorted))

\* sort_by with the sort left out.
sort_by_left_out(rows, key) == rows

\* rows.sort(key=lambda x: x[key]): ascending and stable.
RECURSIVE sort_by(_, _)
sort_by(rows, key) ==
    IF rows = <<>> THEN <<>>
    ELSE insert_sorted(sort_by(SubSeq(rows, 1, Len(rows) - 1), key), rows[Len(rows)], key)

\* Appending a row unless a row with its key is there already.
append_if_new(kept, row, key) ==
    IF \E i \in 1..Len(kept) : kept[i][key] = row[key] THEN kept
    ELSE Append(kept, row)

\* The rows with a key not seen before, in their order.
RECURSIVE unique_by(_, _)
unique_by(rows, key) ==
    IF rows = <<>> THEN <<>>
    ELSE append_if_new(unique_by(SubSeq(rows, 1, Len(rows) - 1), key), rows[Len(rows)], key)

-----------------------------------------------------------------------------
(* What becomes of one record: a row, nothing, or the OverflowError that   *)
(* came out of parse_garmin_timestamp                                      *)

Skip == [kind |-> "skip"]
Row(r) == [kind |-> "row", row |-> r]
Blank == Str(<<>>)

biometrics_row(record, record_dt) ==
    IF record_dt = OverflowError THEN OverflowError
    ELSE IF record_dt = None \/ ~is_in_date_range(record_dt) THEN Skip
    ELSE Row([datetime |-> format_datetime_csv(record_dt),
              resting_hr |-> safe_get(record, <<"restingHeartRate">>, Blank),
              hrv |-> Blank, stress_level |-> Blank, body_battery |-> Blank,
              spo2 |-> Blank, respiration_rate |-> Blank])

biometrics_record(record, local) ==
    biometrics_row(record,
        parse_garmin_timestamp(safe_get(record, <<"metaData", "calendarDate">>, Null), local))

\* safe_get(record, [key], 0) of a count of seconds.
seconds_of(record, key) == safe_get(record, <<key>>, Num(0)).n

sleep_csv_row(record, record_dt, deep_seconds, rem_seconds, light_seconds, awake_seconds) ==
    [date |-> format_date_csv(record_dt),
     sleep_duration |-> IF deep_seconds + light_seconds + rem_seconds > 0
                        THEN round_minutes(deep_seconds + light_seconds + rem_seconds)
                        ELSE 0,
     deep_sleep |-> IF deep_seconds # 0 THEN round_minutes(deep_seconds) ELSE 0,
     rem_sleep |-> IF rem_seconds # 0 THEN round_minutes(rem_seconds) ELSE 0,
     light_sleep |-> IF light_seconds # 0 THEN round_minutes(light_seconds) ELSE 0,
     wake_time |-> IF awake_seconds # 0 THEN round_minutes(awake_seconds) ELSE 0,
     sleep_score |-> safe_get(record, <<"overallSleepScore", "value">>, Blank),
     resting_hr_sleep |-> safe_get(record, <<"spo2SleepSummary", "averageHR">>, Blank),
     hrv_sleep |-> Blank]

\* The two sleep timestamps are parsed for an in-range record only; the
\* duration computed from them goes into no column.
sleep_row(record, record_dt, sleep_start_dt, sleep_end_dt) ==
    IF record_dt = OverflowError THEN OverflowError
    ELSE IF record_dt = None \/ ~is_in_date_range(record_dt) THEN Skip
    ELSE IF sleep_start_dt = OverflowError \/ sleep_end_dt = OverflowError THEN OverflowError
    ELSE Row(sleep_csv_row(record, record_dt,
                           seconds_of(record, "deepSleepSeconds"),
                           seconds_of(record, "remSleepSeconds"),
                           seconds_of(record, "lightSleepSeconds"),
                           seconds_of(record, "awakeSleepSeconds")))

sleep_record(record, local) ==
    sleep_row(record,
        parse_garmin_timestamp(safe_get(record, <<"calendarDate">>, Null), local),
        parse_garmin_timestamp(safe_get(record, <<"sleepStartTimestampGMT">>, Null), local),
        parse_garmin_timestamp(safe_get(record, <<"sleepEndTimestampGMT">>, Null), local))

max_met_row(record, record_dt) ==
    IF record_dt = OverflowError THEN OverflowError
    ELSE IF record_dt = None \/ ~is_in_date_range(record_dt) THEN Skip
    ELSE Row([start_time |-> format_datetime_csv(record_dt),
              activity_type |-> safe_get(record, <<"sport">>, Blank),
              duration_min |-> Blank,
              max_met |-> safe_get(record, <<"maxMet">>, Blank),
              avg_hr |-> Blank, max_hr |-> Blank, training_effect |-> Blank])

\* max_met_record_dt falling back to calendarDate also when updateTimestamp
\* is out of range.
max_met_record_dt_or_out_of_range(update_dt, calendar_dt) ==
    IF update_dt = OverflowError THEN OverflowError
    ELSE IF update_dt = None \/ ~is_in_date_range(update_dt) THEN calendar_dt
    ELSE update_dt

\* record_dt: that of updateTimestamp, and `if not record_dt` that of
\* calendarDate.
max_met_record_dt(update_dt, calendar_dt) ==
    IF update_dt = OverflowError THEN OverflowError
    ELSE IF update_dt = None THEN calendar_dt
    ELSE update_dt

max_met_record(record, local) ==
    max_met_row(record,
        max_met_record_dt(
            parse_garmin_timestamp(safe_get(record, <<"updateTimestamp">>, Null), local),
            parse_garmin_timestamp(safe_get(record, <<"calendarDate">>, Null), local)))

-----------------------------------------------------------------------------
(* The export tree and the three table builders                            *)

\* A file holds text json.load rejects, or a list of records.
Corrupt == [kind |-> "corrupt"]
Json(records) == [kind |-> "json", data |-> records]

\* A directory is a set of files [name, content].  A file name is the
\* sequence of its parts, so that `part in filename` and endswith(part)
\* can be told.
AbsentDir == [exists |-> FALSE, files |-> {}]
Dir(files) == [exists |-> TRUE, files |-> files]

has_part(filename, part) == \E i \in 1..Len(filename) : filename[i] = part
ends_with(filename, part) == Len(filename) > 0 /\ filename[Len(filename)] = part
has_file(dir, filename) == dir.exists /\ \E f \in dir.files : f.name = filename
content_of(dir, filename) == (CHOOSE f \in dir.files : f.name = filename).content

BIOMETRICS_FILE == <<"83630101", "_userBioMetrics.json">>
is_sleep_file(filename) == has_part(filename, "_sleepData.json")
is_max_met_file(filename) ==
    has_part(filename, "MetricsMaxMetData_") /\ ends_with(filename, ".json")

BIOMETRICS_HEADERS ==
    <<"datetime", "resting_hr", "hrv", "stress_level", "body_battery", "spo2",
      "respiration_rate">>
SLEEP_HEADERS ==
    <<"date", "sleep_duration", "deep_sleep", "rem_sleep", "light_sleep", "wake_time",
      "sleep_score", "resting_hr_sleep", "hrv_sleep">>
MAX_MET_HEADERS ==
    <<"start_time", "activity_type", "duration_min", "max_met", "avg_hr", "max_hr",
      "training_effect">>

\* The records of the files named, in that order; a file json.load rejects
\* gives none (continue).
RECURSIVE records_of_files(_, _)
records_of_files(dir, filenames) ==
    IF filenames = <<>> THEN <<>>
    ELSE (IF content_of(dir, Head(filenames)).kind = "json"
          THEN content_of(dir, Head(filenames)).data ELSE <<>>)
         \o records_of_files(dir, Tail(filenames))

raised(outcomes) == \E i \in 1..Len(outcomes) : outcomes[i] = OverflowError

RECURSIVE rows_of(_)
rows_of(outcomes) ==
    IF outcomes = <<>> THEN <<>>
    ELSE (IF Head(outcomes).kind = "row" THEN <<Head(outcomes).row>> ELSE <<>>)
         \o rows_of(Tail(outcomes))

\* How a builder ends: with the exception, with a return before any file
\* is written, or with its CSV file written (header, then rows).
Raised == [end |-> "raised", collected |-> <<>>, rows |-> <<>>]
Returned == [end |-> "returned", collected |-> <<>>, rows |-> <<>>]
Written(gathered, rows) == [end |-> "written", collected |-> gathered, rows |-> rows]

\* processed_rows takes a row when none has its datetime; it is sorted
\* before it is written.
write_biometrics(outcomes) ==
    IF raised(outcomes) THEN Raised
    ELSE Written(unique_by(rows_of(outcomes), "datetime"),
                 sort_by(unique_by(rows_of(outcomes), "datetime"), "datetime"))

\* all_..._records is sorted, then the first row of each key is kept.
write_sorted_unique(outcomes, key) ==
    IF raised(outcomes) THEN Raised
    ELSE Written(rows_of(outcomes), unique_by(sort_by(rows_of(outcomes), key), key))

biometrics_outcomes(records, local) ==
    [i \in 1..Len(records) |-> biometrics_record(records[i], local)]
sleep_outcomes(records, local) ==
    [i \in 1..Len(records) |-> sleep_record(records[i], local)]
max_met_outcomes(records, local) ==
    [i \in 1..Len(records) |-> max_met_record(records[i], local)]

user_biometrics_result(dir, local) ==
    IF ~has_file(dir, BIOMETRICS_FILE) THEN Returned
    ELSE IF content_of(dir, BIOMETRICS_FILE) = Corrupt THEN Returned
    ELSE write_biometrics(biometrics_outcomes(content_of(dir, BIOMETRICS_FILE).data, local))

\* `order` is what os.listdir gave.
sleep_data_result(dir, order, local) ==
    IF ~dir.exists THEN Returned
    ELSE write_sorted_unique(
           sleep_outcomes(records_of_files(dir, SelectSeq(order, is_sleep_file)), local),
           "date")

max_met_data_result(dir, order, local) ==
    IF ~dir.exists THEN Returned
    ELSE write_sorted_unique(
           max_met_outcomes(records_of_files(dir, SelectSeq(order, is_max_met_file)), local),
           "start_time")

\* The orders os.listdir can give for a directory: any.
ListingOrders(dir) ==
    {order \in [1..Cardinality(dir.files) -> {f.name : f \in dir.files}] :
        \A i, j \in 1..Cardinality(dir.files) : i # j => order[i] # order[j]}

Pending == [kind |-> "pending"]
NoTree == [kind |-> "none"]
NoCsv == [kind |-> "none"]
Tables == {"user_biometrics.csv", "sleep_data.csv", "max_met_data.csv"}

-----------------------------------------------------------------------------
(* Calls of the timestamp functions                                        *)

PipelineIdle ==
    /\ pc = "idle" /\ fs = NoTree /\ listing = <<>> /\ collected = <<>>
    /\ csv = [t \in Tables |-> NoCsv] /\ crashed_in = "nowhere"

InitFn ==
    /\ gen \in GenInputs
    /\ ts_input = Render(gen)
    /\ tzlocal \in LocalOffsets
    /\ ret = Pending /\ ts_other = Null /\ ret_other = Pending
    /\ range_arg = Pending /\ range_ret = FALSE
    /\ PipelineIdle

\* A call parse_garmin_timestamp(ts_input).
Parse ==
    /\ ret = Pending
    /\ ret' = parse_garmin_timestamp(ts_input, tzlocal)
    /\ UNCHANGED <<gen, ts_input, tzlocal, ts_other, ret_other, range_arg, range_ret,
                   pc, fs, listing, collected, csv, crashed_in>>

\* A second call, on another offset encoding of the instant of ts_input.
ParseOther ==
    /\ ret # Pending /\ ret_other = Pending
    /\ ValidOffsetGen(gen)
    /\ \E off \in OffsetEncodings :
         /\ Reencoded(gen, off).year >= 1 /\ Reencoded(gen, off).year <= 9999
         /\ ts_other' = Render(Reencoded(gen, off))
         /\ ret_other' = parse_garmin_timestamp(Render(Reencoded(gen, off)), tzlocal)
    /\ UNCHANGED <<gen, ts_input, tzlocal, ret, range_arg, range_ret,
                   pc, fs, listing, collected, csv, crashed_in>>

\* A call is_in_date_range(x): on what parse_garmin_timestamp returned, or
\* on the datetime of the try block before it was moved to UTC (which can
\* be naive or carry another offset).
Filter ==
    /\ ret \in {None} \cup {r \in {ret} : r.kind = "datetime"}
    /\ range_arg = Pending
    /\ \E x \in {ret} \cup {d \in (IF ts_input.t = "str"
                                     THEN {parse_branches(ts_input.s)} ELSE {}) :
                              d.kind = "datetime"} :
         /\ range_arg' = x
         /\ range_ret' = is_in_date_range(x)
    /\ UNCHANGED <<gen, ts_input, tzlocal, ret, ts_other, ret_other,
                   pc, fs, listing, collected, csv, crashed_in>>

NextFn == Parse \/ ParseOther \/ Filter

SpecFn == InitFn /\ [][NextFn]_vars

-----------------------------------------------------------------------------
(* A run of the main block over an export tree                             *)

MaxFiles == 2
MaxRecords == 2

DateOnly(y, m, d) ==
    Render(GenFields(y, <<m, d>>, <<0, 0, 0>>, <<>>, "ext", "T", FALSE, NoOffset))
Stamp(y, m, d, h, frac) ==
    Render(GenFields(y, <<m, d>>, <<h, 0, 0>>, frac, "ext", "T", TRUE, NoOffset))
\* 0001-01-01T00:00:00.0+01:00
BeforeYearOne ==
    Render(GenFields(1, <<1, 1>>, <<0, 0, 0>>, <<"0">>, "ext", "T", TRUE,
                     [style |-> "colon", minutes |-> 60]))
NotADate == Str(<<"n", "/", "a">>)

BioRecords ==
    {Dict([metaData |-> Dict([calendarDate |-> Stamp(2021, 3, 10, 10, <<"0">>)])]),
     Dict([metaData |-> Dict([calendarDate |-> Stamp(2021, 3, 10, 10, <<"5">>)]),
           restingHeartRate |-> Num(52)]),
     Dict([metaData |-> Dict([calendarDate |-> Stamp(2021, 1, 5, 8, <<"0">>)])]),
     Dict([metaData |-> Dict([calendarDate |-> Stamp(2019, 12, 31, 8, <<"0">>)])]),
     Dict([userProfilePK |-> Num(83630101)]),
     Dict([metaData |-> Dict([calendarDate |-> BeforeYearOne])])}

SleepRecords ==
    {Dict([calendarDate |-> DateOnly(2021, 1, 2),
           sleepStartTimestampGMT |-> Stamp(2021, 1, 1, 22, <<"0">>),
           sleepEndTimestampGMT |-> Stamp(2021, 1, 2, 6, <<"0">>),
           deepSleepSeconds |-> Num(7200), lightSleepSeconds |-> Num(10800),
           remSleepSeconds |-> Num(1800), awakeSleepSeconds |-> Num(1260),
           overallSleepScore |-> Dict([value |-> Num(81)])]),
     Dict([calendarDate |-> DateOnly(2021, 1, 2),
           deepSleepSeconds |-> Num(30), lightSleepSeconds |-> Num(90),
           remSleepSeconds |-> Num(150), awakeSleepSeconds |-> Num(45)]),
     Dict([calendarDate |-> DateOnly(2021, 1, 1)]),
     Dict([calendarDate |-> DateOnly(2020, 1, 31), deepSleepSeconds |-> Num(3600)]),
     Dict([calendarDate |-> DateOnly(2025, 6, 30),
           deepSleepSeconds |-> Num(0), lightSleepSeconds |-> Num(0),
           remSleepSeconds |-> Num(0), awakeSleepSeconds |-> Num(330)]),
     Dict([calendarDate |-> NotADate, deepSleepSeconds |-> Num(3600)]),
     Dict([calendarDate |-> DateOnly(2021, 1, 3),
           sleepStartTimestampGMT |-> BeforeYearOne, deepSleepSeconds |-> Num(3600)])}

MaxMetRecords ==
    {Dict([updateTimestamp |-> Stamp(2021, 3, 10, 10, <<"0">>),
           calendarDate |-> DateOnly(2021, 3, 10), sport |-> Str(<<"R", "U", "N">>),
           maxMet |-> Num(12)]),
     Dict([updateTimestamp |-> Stamp(2021, 3, 10, 10, <<"5">>),
           calendarDate |-> DateOnly(2021, 3, 10), sport |-> Str(<<"B", "I", "K", "E">>),
           maxMet |-> Num(9)]),
     Dict([calendarDate |-> DateOnly(2021, 3, 10), maxMet |-> Num(11)]),
     Dict([updateTimestamp |-> Stamp(2019, 6, 1, 10, <<"0">>),
           calendarDate |-> DateOnly(2021, 3, 11)]),
     Dict([updateTimestamp |-> NotADate, calendarDate |-> DateOnly(2021, 2, 1)]),
     Dict([calendarDate |-> DateOnly(2026, 1, 1)]),
     Dict([updateTimestamp |-> BeforeYearOne, calendarDate |-> DateOnly(2021, 3, 12)])}

\* The files an export tree can hold, each with the directory it is in and
\* the records it can hold.
Slots ==
    {[dir |-> "DI-Connect-Wellness", name |-> BIOMETRICS_FILE, pool |-> BioRecords],
     [dir |-> "DI-Connect-Wellness",
      name |-> <<"2021-01-01_2021-04-11_83630101", "_sleepData.json">>,
      pool |-> SleepRecords],
     [dir |-> "DI-Connect-Wellness",
      name |-> <<"2021-04-11_2021-07-20_83630101", "_sleepData.json">>,
      pool |-> SleepRecords],
     [dir |-> "DI-Connect-Metrics",
      name |-> <<"MetricsMaxMetData_", "20210101_20210411_83630101", ".json">>,
      pool |-> MaxMetRecords],
     [dir |-> "DI-Connect-Metrics",
      name |-> <<"MetricsMaxMetData_", "20210411_20210720_83630101", ".json">>,
      pool |-> MaxMetRecords],
     [dir |-> "DI-Connect-Metrics",
      name |-> <<"MetricsMaxMetData_", "20210101_20210411_83630101", ".json", ".bak">>,
      pool |-> MaxMetRecords]}

\* Ways to put up to MaxRecords records into the files `into`: a sequence
\* of <<file name, record>>.
Placements(into) ==
    UNION {[1..n -> UNION {{<<slot.name, r>> : r \in slot.pool} : slot \in into}] :
             n \in 0..MaxRecords}

RecordsPlaced(placed, filename) ==
    LET mine == SelectSeq(placed, LAMBDA p : p[1] = filename)
    IN  [i \in 1..Len(mine) |-> mine[i][2]]

ExportDir(dirname, made, present, corrupt, placed) ==
    LET here == {slot \in present : slot.dir = dirname}
    IN  IF here = {} /\ ~made THEN AbsentDir
        ELSE Dir({[name |-> slot.name,
                   content |-> IF slot \in corrupt THEN Corrupt
                               ELSE Json(RecordsPlaced(placed, slot.name))] : slot \in here})

Init ==
    /\ gen = GenRaw(Null) /\ ts_input = Null
    /\ ret = Pending /\ ts_other = Null /\ ret_other = Pending
    /\ range_arg = Pending /\ range_ret = FALSE
    /\ tzlocal \in LocalOffsets
    /\ \E present \in {files \in SUBSET Slots : Cardinality(files) <= MaxFiles} :
       \E corrupt \in SUBSET present :
       \E placed \in Placements(present \ corrupt) :
       \E wellness_made, metrics_made \in BOOLEAN :
         fs = [wellness |-> ExportDir("DI-Connect-Wellness", wellness_made, present, corrupt, placed),
               metrics |-> ExportDir("DI-Connect-Metrics", metrics_made, present, corrupt, placed)]
    /\ pc = "process_user_biometrics"
    /\ listing = <<>> /\ collected = <<>>
    /\ csv = [t \in Tables |-> NoCsv]
    /\ crashed_in = "nowhere"

\* The end of a builder: its file written or not, and the main block going
\* on to `next` unless the exception ended the program.
Finish(table, headers, next, result) ==
    /\ collected' = result.collected
    /\ csv' = IF result.end = "written"
              THEN [csv EXCEPT ![table] = [kind |-> "csv", header |-> headers,
                                          rows |-> result.rows]]
              ELSE csv
    /\ pc' = IF result.end = "raised" THEN "crashed" ELSE next
    /\ crashed_in' = IF result.end = "raised" THEN pc ELSE crashed_in

process_user_biometrics ==
    /\ pc = "process_user_biometrics"
    /\ listing' = <<>>
    /\ Finish("user_biometrics.csv", BIOMETRICS_HEADERS, "process_sleep_data",
              user_biometrics_result(fs.wellness, tzlocal))
    /\ UNCHANGED <<gen, ts_input, tzlocal, ret, ts_other, ret_other, range_arg, range_ret, fs>>

process_sleep_data ==
    /\ pc = "process_sleep_data"
    /\ \E order \in ListingOrders(fs.wellness) :
         /\ listing' = order
         /\ Finish("sleep_data.csv", SLEEP_HEADERS, "process_max_met_data",
                   sleep_data_result(fs.wellness, order, tzlocal))
    /\ UNCHANGED <<gen, ts_input, tzlocal, ret, ts_other, ret_other, range_arg, range_ret, fs>>

process_max_met_data ==
    /\ pc = "process_max_met_data"
    /\ \E order \in ListingOrders(fs.metrics) :
         /\ listing' = order
         /\ Finish("max_met_data.csv", MAX_MET_HEADERS, "done",
                   max_met_data_result(fs.metrics, order, tzlocal))
    /\ UNCHANGED <<gen, ts_input, tzlocal, ret, ts_other, ret_other, range_arg, range_ret, fs>>

Next == process_user_biometrics \/ process_sleep_data \/ process_max_met_data

Spec == Init /\ [][Next]_vars

-----------------------------------------------------------------------------
(* Properties of the timestamp functions (SpecFn)                          *)

\* The day number of a date, counted from 0001-01-01 = 1.
DayNumber(y, m, d) ==
    365 * (y - 1) + (y - 1) \div 4 - (y - 1) \div 100 + (y - 1) \div 400
    + <<0, 31, 59, 90, 120, 151, 181, 212, 243, 273, 304, 334>>[m]
    + (IF m > 2 /\ ((y % 4 = 0 /\ y % 100 # 0) \/ y % 400 = 0) THEN 1 ELSE 0)
    + d

\* The instant a datetime denotes, as <<day number, second of the day,
\* microsecond>> in UTC; a naive datetime is read as UTC.
Instant(dt) ==
    LET us == dt.microsecond - (IF dt.tzinfo.aware THEN dt.tzinfo.offus ELSE 0)
        sec == dt.hour * 3600 + dt.minute * 60 + dt.second
               - (IF dt.tzinfo.aware THEN dt.tzinfo.off ELSE 0) + us \div 1000000
    IN  <<DayNumber(dt.year, dt.month, dt.day) + sec \div 86400, sec % 86400, us % 1000000>>

NotAfter(a, b) ==
    \/ a[1] < b[1]
    \/ a[1] = b[1] /\ a[2] < b[2]
    \/ a[1] = b[1] /\ a[2] = b[2] /\ a[3] <= b[3]

\* 2020-02-01T00:00:00Z <= dt <= 2025-06-30T00:00:00Z
InWindow(dt) ==
    /\ NotAfter(<<DayNumber(2020, 2, 1), 0, 0>>, Instant(dt))
    /\ NotAfter(Instant(dt), <<DayNumber(2025, 6, 30), 0, 0>>)

\* The instant is one a datetime in UTC can hold (years 1 to 9999).
Representable(dt) ==
    Instant(dt)[1] >= 1 /\ Instant(dt)[1] <= DayNumber(9999, 12, 31)

\* C1: parse_garmin_timestamp is total over strings: whatever the text, the
\* call returns a datetime in UTC or None, and no exception leaves it.
C1_Total ==
    ret # Pending => (ret = None \/ (ret.kind = "datetime" /\ ret.tzinfo = UTC))

\* The dispatcher as C2 words it: the first branch is taken for a '.' plus
\* a 'Z', '+' or '-' at position 10 or later.
C2_ZoneAfterDate(s) ==
    /\ Contains(s, ".")
    /\ \/ Contains(SliceFrom(s, 10), "Z")
       \/ Contains(SliceFrom(s, 10), "+")
       \/ Contains(SliceFrom(s, 10), "-")

C2_Branches(s) ==
    IF C2_ZoneAfterDate(s) THEN fromisoformat(OffsetBranchText(s))
    ELSE IF Contains(s, ".") THEN replace_tzinfo_utc(strptime(s, FormatFraction))
    ELSE IF Contains(s, "T") /\ Len(s) = 19 THEN replace_tzinfo_utc(strptime(s, FormatSeconds))
    ELSE IF Len(s) = 10 /\ Contains(s, "-") THEN replace_tzinfo_utc(strptime(s, FormatDate))
    ELSE None

\* C2: for every non-empty string the result is that of the first-match
\* dispatcher (offset-aware parse; fraction as UTC; 19 characters with a
\* 'T' as UTC; 10 characters with a '-' as UTC midnight; else None) in
\* which a timezone indicator counts only at position 10 or later.
C2_Dispatcher ==
    (ret # Pending /\ ts_input.t = "str" /\ Len(ts_input.s) > 0)
        => ret = normalized(C2_Branches(ts_input.s), tzlocal)

\* C3 (as amended): a valid ISO timestamp with fractional seconds and an
\* explicit offset (+hh:mm, +hhmm or Z), denoting an instant of the years 1
\* to 9999, is returned as that instant in UTC, and equals what any other
\* offset encoding of the instant is returned as.
C3_OffsetEncodingsAgree ==
    (ret # Pending /\ ValidOffsetGen(gen) /\ Len(gen.frac) > 0 /\ Representable(GenWall(gen)))
        => /\ ret.kind = "datetime"
           /\ ret.tzinfo = UTC
           /\ Instant(ret) = Instant(GenWall(gen))
           /\ ret_other # Pending => ret_other = ret

\* C3 (as stated): the same for every valid ISO timestamp with an explicit
\* offset, with or without fractional seconds.
C3_WithOrWithoutFraction ==
    (ret # Pending /\ ValidOffsetGen(gen) /\ Representable(GenWall(gen)))
        => /\ ret.kind = "datetime"
           /\ ret.tzinfo = UTC
           /\ Instant(ret) = Instant(GenWall(gen))
           /\ ret_other # Pending => ret_other = ret

\* Two encodings with different offsets were normalized, the first written
\* without a colon.
C3_Witness ==
    /\ ret_other # Pending /\ ts_other # ts_input
    /\ ValidOffsetGen(gen) /\ Len(gen.frac) > 0 /\ gen.off.style = "plain"
    /\ ret.kind = "datetime" /\ ret_other = ret

\* C4: is_in_date_range is FALSE for None; for a datetime it is TRUE exactly
\* when 2020-02-01T00:00:00Z <= instant <= 2025-06-30T00:00:00Z, both ends
\* included, a datetime without tzinfo being compared as UTC.
C4_InclusiveWindow ==
    range_arg # Pending
        => range_ret = (range_arg # None /\ InWindow(range_arg))

\* A datetime without tzinfo was found in range.
C4_Witness ==
    /\ range_arg # Pending /\ range_arg # None
    /\ ~range_arg.tzinfo.aware
    /\ range_ret

-----------------------------------------------------------------------------
(* Properties of a run of the main block (Spec)                            *)

Builders == <<"process_user_biometrics", "process_sleep_data", "process_max_met_data", "done">>
TableOf(builder) ==
    CASE builder = "process_user_biometrics" -> "user_biometrics.csv"
      [] builder = "process_sleep_data" -> "sleep_data.csv"
      [] builder = "process_max_met_data" -> "max_met_data.csv"
KeyOf(table) ==
    CASE table = "user_biometrics.csv" -> "datetime"
      [] table = "sleep_data.csv" -> "date"
      [] table = "max_met_data.csv" -> "start_time"
HeadersOf(table) ==
    CASE table = "user_biometrics.csv" -> BIOMETRICS_HEADERS
      [] table = "sleep_data.csv" -> SLEEP_HEADERS
      [] table = "max_met_data.csv" -> MAX_MET_HEADERS
Position(at) == CHOOSE i \in 1..4 : Builders[i] = at

\* The builder has ended and the main block went on.
Ended(builder) ==
    Position(IF pc = "crashed" THEN crashed_in ELSE pc) > Position(builder)

\* The builder is the one that ended last, with or without an exception.
RanLast(builder) ==
    \/ pc = "crashed" /\ crashed_in = builder
    \/ pc # "crashed" /\ Position(pc) = Position(builder) + 1

\* The files of the builder's batch: those its name test selects.
Batch(builder) ==
    CASE builder = "process_user_biometrics" ->
           {f \in fs.wellness.files : f.name = BIOMETRICS_FILE}
      [] builder = "process_sleep_data" ->
           {f \in fs.wellness.files : is_sleep_file(f.name)}
      [] builder = "process_max_met_data" ->
           {f \in fs.metrics.files : is_max_met_file(f.name)}

\* The instant a record's field normalizes to is in the window.
FieldInRange(record, path) ==
    LET dt == parse_garmin_timestamp(safe_get(record, path, Null), tzlocal)
    IN  dt.kind = "datetime" /\ InWindow(dt)

\* C5: every run of a builder ends with its CSV file written with its
\* header row, also when the source is absent, no file matches or no
\* record passes the filter (then with the header row only).
C5_CsvAlwaysWritten ==
    \A i \in 1..3 :
        Ended(Builders[i])
            => /\ csv[TableOf(Builders[i])].kind = "csv"
               /\ csv[TableOf(Builders[i])].header = HeadersOf(TableOf(Builders[i]))

\* C6: in each CSV file written the rows' keys (datetime, date, start_time)
\* are pairwise distinct and ascending: each key is less than the next.
C6_KeysDistinctAscending ==
    \A t \in Tables :
        csv[t].kind = "csv"
            => \A i \in 1..(Len(csv[t].rows) - 1) :
                   TextLess(csv[t].rows[i][KeyOf(t)], csv[t].rows[i + 1][KeyOf(t)])

\* The sleep builder collected two rows with the later date first and wrote
\* both.
C6_Witness ==
    /\ pc = "process_max_met_data"
    /\ Len(collected) = 2
    /\ TextLess(collected[2].date, collected[1].date)
    /\ csv["sleep_data.csv"].kind = "csv"
    /\ Len(csv["sleep_data.csv"].rows) = 2

\* C7: the rows written do not depend on the order in which the directory
\* was listed: every other order gives the rows that were written.
C7_ListingOrderIrrelevant ==
    /\ (pc = "process_max_met_data" /\ csv["sleep_data.csv"].kind = "csv")
           => \A order \in ListingOrders(fs.wellness) :
                  sleep_data_result(fs.wellness, order, tzlocal).rows
                      = csv["sleep_data.csv"].rows
    /\ (pc = "done" /\ csv["max_met_data.csv"].kind = "csv")
           => \A order \in ListingOrders(fs.metrics) :
                  max_met_data_result(fs.metrics, order, tzlocal).rows
                      = csv["max_met_data.csv"].rows

\* The key column's text for a record of the builder's batch that is in
\* range, by the date field the table is keyed on.
C8_KeysDue(builder, record) ==
    CASE builder = "process_user_biometrics" ->
           IF FieldInRange(record, <<"metaData", "calendarDate">>)
           THEN {format_datetime_csv(parse_garmin_timestamp(
                    safe_get(record, <<"metaData", "calendarDate">>, Null), tzlocal))}
           ELSE {}
      [] builder = "process_sleep_data" ->
           IF FieldInRange(record, <<"calendarDate">>)
           THEN {format_date_csv(parse_garmin_timestamp(
                    safe_get(record, <<"calendarDate">>, Null), tzlocal))}
           ELSE {}
      [] builder = "process_max_met_data" ->
           IF FieldInRange(record, <<"updateTimestamp">>)
           THEN {format_datetime_csv(parse_garmin_timestamp(
                    safe_get(record, <<"updateTimestamp">>, Null), tzlocal))}
           ELSE {}

\* C8: when a file of a builder's batch fails JSON decoding, the in-range
\* records of the batch's other files still have their rows in the CSV
\* file, and the main block goes on to the remaining builders.
C8_DecodeFailureIsolated ==
    \A b \in 1..3 :
        (RanLast(Builders[b]) /\ \E f \in Batch(Builders[b]) : f.content = Corrupt)
            => /\ pc # "crashed"
               /\ \A f \in Batch(Builders[b]) :
                      f.content.kind = "json"
                          => \A i \in 1..Len(f.content.data) :
                               \A k \in C8_KeysDue(Builders[b], f.content.data[i]) :
                                   /\ csv[TableOf(Builders[b])].kind = "csv"
                                   /\ \E r \in 1..Len(csv[TableOf(Builders[b])].rows) :
                                        csv[TableOf(Builders[b])].rows[r][KeyOf(TableOf(Builders[b]))] = k

\* The records process_sleep_data / process_max_met_data read, in the
\* order the listing gave.
RecordsRead(dir, Selected(_)) ==
    IF dir.exists THEN records_of_files(dir, SelectSeq(listing, Selected)) ELSE <<>>

\* r is n / 60 rounded to the nearest integer, a half to the even one.
HalfEven(r, n) ==
    /\ 60 * r - n >= -30 /\ 60 * r - n <= 30
    /\ (60 * r - n = 30 \/ 60 * r - n = -30) => r % 2 = 0

C9_Count(record, key) == IF key \in DOMAIN record.d THEN record.d[key].n ELSE 0

C9_Rounded(row, record) ==
    /\ HalfEven(row.sleep_duration,
                C9_Count(record, "deepSleepSeconds") + C9_Count(record, "lightSleepSeconds")
                + C9_Count(record, "remSleepSeconds"))
    /\ HalfEven(row.deep_sleep, C9_Count(record, "deepSleepSeconds"))
    /\ HalfEven(row.rem_sleep, C9_Count(record, "remSleepSeconds"))
    /\ HalfEven(row.light_sleep, C9_Count(record, "lightSleepSeconds"))
    /\ HalfEven(row.wake_time, C9_Count(record, "awakeSleepSeconds"))
    /\ (C9_Count(record, "deepSleepSeconds") + C9_Count(record, "lightSleepSeconds")
        + C9_Count(record, "remSleepSeconds") = 0) => row.sleep_duration = 0

C9_SleepInRange(record) == FieldInRange(record, <<"calendarDate">>)

\* C9: each in-range sleep record (counts non-negative integers, a missing
\* one taken as 0) gets a row whose sleep_duration, deep_sleep, rem_sleep,
\* light_sleep and wake_time are the seconds / 60 rounded half-to-even, the
\* sleep_duration being that of deep + light + rem, and 0 when that is 0.
C9_MinutesHalfEven ==
    pc = "process_max_met_data"
        => LET due == SelectSeq(RecordsRead(fs.wellness, is_sleep_file), C9_SleepInRange)
           IN  /\ Len(collected) = Len(due)
               /\ \A i \in 1..Len(due) : C9_Rounded(collected[i], due[i])

\* A record with 30 / 90 / 150 seconds of deep / light / rem sleep (each a
\* half minute off) got its row.
C9_Witness ==
    /\ pc = "process_max_met_data"
    /\ \E i \in 1..Len(collected) :
         /\ collected[i].deep_sleep = 0 /\ collected[i].light_sleep = 2
         /\ collected[i].rem_sleep = 2 /\ collected[i].sleep_duration = 4
         /\ collected[i].wake_time = 1

\* The instant C10 has a max-MET record choose.
C10_Chosen(record) ==
    IF parse_garmin_timestamp(safe_get(record, <<"updateTimestamp">>, Null), tzlocal) # None
    THEN parse_garmin_timestamp(safe_get(record, <<"updateTimestamp">>, Null), tzlocal)
    ELSE parse_garmin_timestamp(safe_get(record, <<"calendarDate">>, Null), tzlocal)

C10_ChosenInRange(record) == C10_Chosen(record) # None /\ InWindow(C10_Chosen(record))

=============================================================================
